---- MODULE Spec2Model ----
(***************************************************************************)
(* Model of githubstats (src/main.py): the per-file scanner                *)
(* get_file_stats, the per-repository walk get_repo_stats and the merge    *)
(* loop, rankings and report emission of main.                             *)
(*                                                                         *)
(* Text is a sequence of one-character strings.  A Python dict is the      *)
(* sequence of its (key, value) items in insertion order; a Python set is  *)
(* a set.                                                                  *)
(***************************************************************************)
EXTENDS Integers, Sequences, FiniteSets, TLC

\* ------------------------------------------------------------------ bounds
MaxRepos == 3
MaxFiles == 2

\* ------------------------------------------------------- generic helpers
Range(s) == {s[i] : i \in 1..Len(s)}

Reverse(s) == [i \in 1..Len(s) |-> s[Len(s) + 1 - i]]

RECURSIVE SumSeq(_)
SumSeq(s) == IF s = <<>> THEN 0 ELSE Head(s) + SumSeq(Tail(s))

InjectiveSeqs(S, n) ==
    UNION {{s \in [1..k -> S] : \A i, j \in 1..k : i # j => s[i] # s[j]} : k \in 0..n}

\* --------------------------------------------------------- Python dicts
DictKeys(d) == {d[i][1] : i \in 1..Len(d)}

DictIndex(d, k) == CHOOSE i \in 1..Len(d) : d[i][1] = k

DictGet(d, k, default) == IF k \in DictKeys(d) THEN d[DictIndex(d, k)][2] ELSE default

\* d[k] = v : an existing key keeps its position, a new key goes last
DictSet(d, k, v) ==
    IF k \in DictKeys(d)
    THEN [d EXCEPT ![DictIndex(d, k)] = <<k, v>>]
    ELSE Append(d, <<k, v>>)

\* the dict as an unordered mapping (Python's dict equality ignores order)
DictAsMap(d) == {d[i] : i \in 1..Len(d)}

\* ----------------------------------------------------------- characters
\* characters for which str.isspace() holds
Whitespace == {" ", "\t", "\n", "\r", "\f"}

\* characters at which str.splitlines() breaks a line
LineBreaks == {"\n", "\r", "\f"}

\* a byte sequence that is not valid UTF-8
BadByte == "\\xff"

\* ------------------------------------------------------ CODE_LANGUAGES
CODE_LANGUAGES ==
    << << <<".", "p", "y">>, "Python" >>,
       << <<".", "c", "p", "p">>, "C++" >>,
       << <<".", "c">>, "C" >>,
       << <<".", "h">>, "C/C++ Header" >>,
       << <<".", "h", "p", "p">>, "C++ Header" >>,
       << <<".", "j", "s">>, "JavaScript" >>,
       << <<".", "h", "t", "m", "l">>, "HTML" >>,
       << <<".", "c", "s", "s">>, "CSS" >>,
       << <<".", "j", "a", "v", "a">>, "Java" >>,
       << <<".", "g", "o">>, "Go" >>,
       << <<".", "p", "h", "p">>, "PHP" >>,
       << <<".", "r", "s">>, "Rust" >>,
       << <<".", "t", "s">>, "TypeScript" >>,
       << <<".", "j", "s", "x">>, "JavaScript (React)" >>,
       << <<".", "t", "s", "x">>, "TypeScript (React)" >>,
       << <<".", "c", "m", "d">>, "Batch" >>,
       << <<".", "b", "a", "t">>, "Batch" >>,
       << <<".", "m", "j", "s">>, "JavaScript (ES Modules)" >>,
       << <<".", "m", "t", "s">>, "TypeScript (ES Modules)" >>,
       << <<".", "r", "j", "s">>, "JavaScript (React Native)" >> >>

\* the keys of CODE_LANGUAGES
CodeLanguageSuffixes == DictKeys(CODE_LANGUAGES)

\* ------------------------------------------------------- get_file_stats
\* open(..., "r", encoding="utf-8", errors="ignore").read(): undecodable
\* bytes are dropped, "\r\n" and a lone "\r" are read as "\n"
RECURSIVE Read(_)
Read(bytes) ==
    IF bytes = <<>> THEN <<>>
    ELSE IF Head(bytes) = BadByte THEN Read(Tail(bytes))
    ELSE IF Head(bytes) = "\r"
         THEN IF Len(bytes) >= 2 /\ bytes[2] = "\n"
              THEN Read(Tail(bytes))
              ELSE <<"\n">> \o Read(Tail(bytes))
    ELSE <<Head(bytes)>> \o Read(Tail(bytes))

\* str.splitlines(): the pieces between line breaks, no empty last piece
RECURSIVE SplitLinesFrom(_, _, _)
SplitLinesFrom(r, cur, out) ==
    IF r = <<>> THEN (IF cur = <<>> THEN out ELSE Append(out, cur))
    ELSE IF Head(r) \in LineBreaks
         THEN SplitLinesFrom(Tail(r), <<>>, Append(out, cur))
         ELSE SplitLinesFrom(Tail(r), Append(cur, Head(r)), out)

SplitLines(r) == SplitLinesFrom(r, <<>>, <<>>)

RECURSIVE LStrip(_)
LStrip(s) == IF s # <<>> /\ Head(s) \in Whitespace THEN LStrip(Tail(s)) ELSE s

\* str.strip()
Strip(s) == Reverse(LStrip(Reverse(LStrip(s))))

\* sum(1 for line in r.splitlines() if line.strip())
CountLines(r) ==
    LET ls == SplitLines(r)
    IN  Cardinality({i \in 1..Len(ls) : Strip(ls[i]) # <<>>})

\* variant: only line breaks are left out of the count
CountChars_LineBreaksOnly(r) == Cardinality({i \in 1..Len(r) : r[i] \notin LineBreaks})

\* sum(1 for char in r if not char.isspace())
CountChars(r) == Cardinality({i \in 1..Len(r) : r[i] \notin Whitespace})

\* variant: the failure to open is not caught as (0, 0); the counts of the
\* content are answered whether or not the file could be read
get_file_stats_NoExcept(file) ==
    LET r == Read(file.content) IN <<CountLines(r), CountChars(r)>>

\* a file is [name, content, readable]; opening an unreadable file raises,
\* and the except clause answers (0, 0)
get_file_stats(file) ==
    IF file.readable
    THEN LET r == Read(file.content) IN <<CountLines(r), CountChars(r)>>
    ELSE <<0, 0>>

\* ------------------------------------------------------------ the inputs
ContentA ==
    <<"p", "r", "i", "n", "t", "(", "1", ")", "\n",
      "\n",
      " ", " ", "\n",
      "p", "r", "i", "n", "t", "(", "2", ")", "\n">>

ContentB ==
    <<"\r", "\n",
      "\t", "i", "n", "t", " ", "m", "a", "i", "n", "(", ")", "{", BadByte,
      "r", "e", "t", "u", "r", "n", ";", "}", "\r",
      " ", "\f">>

ContentC == <<"a", "b", "\n", "c">>

FileA == [name |-> <<"a", ".", "p", "y">>, content |-> ContentA, readable |-> TRUE]
FileB == [name |-> <<"b", ".", "c">>, content |-> ContentB, readable |-> TRUE]
FileU == [name |-> <<"u", ".", "h">>, content |-> ContentC, readable |-> FALSE]
FileX == [name |-> <<"x", ".", "x", "y", "z">>, content |-> ContentC, readable |-> TRUE]
FileN == [name |-> <<"m">>, content |-> ContentC, readable |-> TRUE]

Files == {FileA, FileB, FileU, FileX, FileN}

\* get_file_stats tabulated over the files of the model
file_stats == [file \in Files |-> get_file_stats(file)]

\* ------------------------------------------------------- get_repo_stats
\* str.rfind("."), 0-based, -1 when there is none
RFindDot(name) ==
    LET dots == {i \in 1..Len(name) : name[i] = "."}
    IN  IF dots = {} THEN -1 ELSE (CHOOSE i \in dots : \A j \in dots : j <= i) - 1

\* Path(file).suffix
Suffix(name) ==
    LET i == RFindDot(name)
    IN  IF 0 < i /\ i < Len(name) - 1 THEN SubSeq(name, i + 1, Len(name)) ELSE <<>>

\* os.walk(repo_path) flattened to the files in the order they are visited;
\* a root that cannot be listed yields nothing (os.walk swallows the error)
os_walk(root) == IF root.exists THEN root.files ELSE <<>>

\* variant: every file is scanned and counted, classified or not
WalkFile_ScanAll(acc, file) ==
    LET file_extension == Suffix(file.name)
        st == file_stats[file]
    IN
    IF file_extension \in CodeLanguageSuffixes
    THEN LET language == DictGet(CODE_LANGUAGES, file_extension, "")
         IN  [acc EXCEPT
                !.repo_lines = DictSet(@, language, DictGet(@, language, 0) + st[1]),
                !.total_lines = @ + st[1],
                !.total_chars = @ + st[2]]
    ELSE [acc EXCEPT !.ignored = @ \cup {file_extension},
                     !.total_lines = @ + st[1],
                     !.total_chars = @ + st[2]]

\* variant: total_chars is assigned, not added to
WalkFile_LastWins(acc, file) ==
    LET file_extension == Suffix(file.name) IN
    IF file_extension \in CodeLanguageSuffixes
    THEN LET st == file_stats[file]
             language == DictGet(CODE_LANGUAGES, file_extension, "")
         IN  [acc EXCEPT
                !.repo_lines = DictSet(@, language, DictGet(@, language, 0) + st[1]),
                !.total_lines = @ + st[1],
                !.total_chars = st[2]]
    ELSE [acc EXCEPT !.ignored = @ \cup {file_extension}]

\* body of the inner loop for one file; acc is the function's locals and
\* the ignored_extensions set it was handed
WalkFile(acc, file) ==
    LET file_extension == Suffix(file.name) IN
    IF file_extension \in CodeLanguageSuffixes
    THEN LET st == file_stats[file]
             language == DictGet(CODE_LANGUAGES, file_extension, "")
         IN  [acc EXCEPT
                !.repo_lines = DictSet(@, language, DictGet(@, language, 0) + st[1]),
                !.total_lines = @ + st[1],
                !.total_chars = @ + st[2]]
    ELSE [acc EXCEPT !.ignored = @ \cup {file_extension}]

RECURSIVE WalkFiles(_, _)
WalkFiles(acc, files) ==
    IF files = <<>> THEN acc ELSE WalkFiles(WalkFile(acc, Head(files)), Tail(files))

get_repo_stats(root, ignored_extensions) ==
    WalkFiles([repo_lines |-> <<>>, total_lines |-> 0, total_chars |-> 0,
               ignored |-> ignored_extensions],
              os_walk(root))

\* ---------------------------------------------------------------- sorted
\* variant: e goes before the pairs whose key equals its own
RECURSIVE InsertAsc_BeforeEqual(_, _)
InsertAsc_BeforeEqual(sortedSoFar, e) ==
    IF sortedSoFar = <<>> THEN <<e>>
    ELSE IF Head(sortedSoFar)[1] < e[1]
         THEN <<Head(sortedSoFar)>> \o InsertAsc_BeforeEqual(Tail(sortedSoFar), e)
         ELSE <<e>> \o sortedSoFar

\* list.sort computes each element's key once and sorts the (key, element)
\* pairs stably: ascending insertion of e goes after every pair whose key is
\* <= the key of e
RECURSIVE InsertAsc(_, _)
InsertAsc(sortedSoFar, e) ==
    IF sortedSoFar = <<>> THEN <<e>>
    ELSE IF Head(sortedSoFar)[1] <= e[1]
         THEN <<Head(sortedSoFar)>> \o InsertAsc(Tail(sortedSoFar), e)
         ELSE <<e>> \o sortedSoFar

RECURSIVE StableSortAsc(_, _)
StableSortAsc(keyed, acc) ==
    IF keyed = <<>> THEN acc
    ELSE StableSortAsc(Tail(keyed), InsertAsc(acc, Head(keyed)))

\* sorted(items, key=..., reverse=True), keys[i] being the key of items[i]:
\* CPython reverses the list, sorts it stably ascending and reverses the
\* result
SortedReverse(items, keys) ==
    LET keyed == [i \in 1..Len(items) |-> <<keys[i], items[i]>>]
        out == Reverse(StableSortAsc(Reverse(keyed), <<>>))
    IN  [i \in 1..Len(out) |-> out[i][2]]

RepoLinesKey(x) == x[2][1]
RepoCharsKey(x) == x[2][2]
LangLinesKey(x) == x[2]

\* the file lists a clone can put on disk, in os.walk order
Trees == InjectiveSeqs(Files, MaxFiles)

GitSuffix == <<".", "g", "i", "t">>

\* clone URLs, as the owner and the text after the last "/"
Urls ==
    {[owner |-> "alice", last |-> <<"a">> \o GitSuffix],
     [owner |-> "org", last |-> <<"a">> \o GitSuffix],
     [owner |-> "alice", last |-> <<"b">> \o GitSuffix]}

\* repo_url.split("/")[-1][:-4]
RepoName(repo_url) == SubSeq(repo_url.last, 1, Len(repo_url.last) - 4)

RepoNames == {RepoName(u) : u \in Urls}

NoTree == [exists |-> FALSE, files |-> <<>>]

\* ------------------------------------------------------------- the state
VARIABLES
    pc,                  \* position in main
    repos,               \* clone URLs returned by get_repos
    disk,                \* clone_dir: repo_name -> directory under ./repos
    repo_num,
    repo_res,            \* (repo_lines_by_lang, repo_total_lines, repo_total_chars) of the last get_repo_stats
    scanned,             \* the directory each get_repo_stats call was given, in call order
    repo_stats,
    language_stats,
    total_lines_of_code,
    total_chars_of_code,
    ignored_extensions,
    line_sorted_repos,
    char_sorted_repos,
    sorted_languages,
    repos_lines_txt,
    repos_chars_txt,
    languages_txt,
    ignored_reported

vars == <<pc, repos, disk, repo_num, repo_res, scanned, repo_stats, language_stats,
          total_lines_of_code, total_chars_of_code, ignored_extensions,
          line_sorted_repos, char_sorted_repos, sorted_languages,
          repos_lines_txt, repos_chars_txt, languages_txt, ignored_reported>>

accumulators == <<repo_res, scanned, repo_stats, language_stats, total_lines_of_code,
                  total_chars_of_code, ignored_extensions>>
rankings == <<line_sorted_repos, char_sorted_repos, sorted_languages>>
outputs == <<repos_lines_txt, repos_chars_txt, languages_txt, ignored_reported>>

EmptyRes == [repo_lines |-> <<>>, total_lines |-> 0, total_chars |-> 0]

Init ==
    /\ pc = "loop"
    /\ repos \in InjectiveSeqs(Urls, MaxRepos)
    /\ disk = [n \in RepoNames |-> NoTree]
    /\ repo_num = 0
    /\ repo_res = EmptyRes
    /\ scanned = <<>>
    /\ repo_stats = <<>>
    /\ language_stats = <<>>
    /\ total_lines_of_code = 0
    /\ total_chars_of_code = 0
    /\ ignored_extensions = {}
    /\ line_sorted_repos = <<>>
    /\ char_sorted_repos = <<>>
    /\ sorted_languages = <<>>
    /\ repos_lines_txt = <<>>
    /\ repos_chars_txt = <<>>
    /\ languages_txt = <<>>
    /\ ignored_reported = {}

\* variant: language_stats[lang] = lines instead of += lines
RECURSIVE AddLanguages_Assign(_, _)
AddLanguages_Assign(stats, repo_lines) ==
    IF repo_lines = <<>> THEN stats
    ELSE AddLanguages_Assign(DictSet(stats, Head(repo_lines)[1], Head(repo_lines)[2]),
                             Tail(repo_lines))

\* ------------------------------------------------- main, lines 129 to 135
RECURSIVE AddLanguages(_, _)
AddLanguages(stats, repo_lines) ==
    IF repo_lines = <<>> THEN stats
    ELSE LET lang == Head(repo_lines)[1]
             lines == Head(repo_lines)[2]
         IN  AddLanguages(DictSet(stats, lang, DictGet(stats, lang, 0) + lines),
                          Tail(repo_lines))

\* ------------------------------------------------- main, lines 123 to 135
\* one turn of the loop over repos, given what clone_repo left on disk
LoopBody(disk_after_clone) ==
    /\ pc = "loop"
    /\ repo_num < Len(repos)
    /\ repo_num' = repo_num + 1
    /\ disk' = disk_after_clone
    /\ LET repo_name == RepoName(repos[repo_num + 1])
           repo_path == disk_after_clone[repo_name]
           res == get_repo_stats(repo_path, ignored_extensions)
       IN  /\ repo_res' = [repo_lines |-> res.repo_lines,
                           total_lines |-> res.total_lines,
                           total_chars |-> res.total_chars]
           /\ ignored_extensions' = res.ignored
           /\ scanned' = Append(scanned, repo_path)
           /\ repo_stats' = DictSet(repo_stats, repo_name, <<res.total_lines, res.total_chars>>)
           /\ language_stats' = AddLanguages(language_stats, res.repo_lines)
           /\ total_lines_of_code' = total_lines_of_code + res.total_lines
           /\ total_chars_of_code' = total_chars_of_code + res.total_chars
    /\ pc' = "loop"
    /\ UNCHANGED <<repos, rankings, outputs>>

\* ------------------------------------------------------------ clone_repo
RepoPathExists == repo_num < Len(repos) /\ disk[RepoName(repos[repo_num + 1])].exists

\* the directory exists: git pull, which leaves the checked-out tree as it is
Pull == RepoPathExists /\ LoopBody(disk)

\* the directory does not exist and git clone creates it
CloneOk ==
    /\ ~RepoPathExists
    /\ \E t \in Trees :
          LoopBody([disk EXCEPT ![RepoName(repos[repo_num + 1])] =
                                     [exists |-> TRUE, files |-> t]])

\* the directory does not exist and git clone fails; call() ignores the status
CloneFail == ~RepoPathExists /\ LoopBody(disk)

\* ------------------------------------------------- main, lines 137 to 147
Rank ==
    /\ pc = "loop"
    /\ repo_num = Len(repos)
    /\ line_sorted_repos' = SortedReverse(repo_stats, [i \in 1..Len(repo_stats) |-> RepoLinesKey(repo_stats[i])])
    /\ char_sorted_repos' = SortedReverse(repo_stats, [i \in 1..Len(repo_stats) |-> RepoCharsKey(repo_stats[i])])
    /\ sorted_languages' = SortedReverse(language_stats, [i \in 1..Len(language_stats) |-> LangLinesKey(language_stats[i])])
    /\ pc' = "emit"
    /\ UNCHANGED <<repos, disk, repo_num, accumulators, outputs>>

\* ------------------------------------------------- main, lines 152 to 174
\* each report file as the sequence of (label, value) pairs of its lines,
\* then the ignored extensions without the empty one
Report ==
    /\ pc = "emit"
    /\ repos_lines_txt' = [i \in 1..Len(line_sorted_repos) |->
                             <<line_sorted_repos[i][1], line_sorted_repos[i][2][1]>>]
    /\ repos_chars_txt' = [i \in 1..Len(line_sorted_repos) |->
                             <<line_sorted_repos[i][1], line_sorted_repos[i][2][2]>>]
    /\ languages_txt' = [i \in 1..Len(sorted_languages) |->
                             <<sorted_languages[i][1], sorted_languages[i][2]>>]
    /\ ignored_extensions' = ignored_extensions \ {<<>>}
    /\ ignored_reported' = ignored_extensions'
    /\ pc' = "done"
    /\ UNCHANGED <<repos, disk, repo_num, repo_res, scanned, repo_stats, language_stats,
                   total_lines_of_code, total_chars_of_code, rankings>>

Next == Pull \/ CloneOk \/ CloneFail \/ Rank \/ Report

Spec == Init /\ [][Next]_vars

TypeOK ==
    /\ pc \in {"loop", "emit", "done"}
    /\ repo_num \in 0..Len(repos)
    /\ Len(scanned) = repo_num

\* =================================================== reference quantities
\* what the source text prescribes for a directory, summed file by file
ClassifiedFiles == {file \in Files : Suffix(file.name) \in DictKeys(CODE_LANGUAGES)}

Classified(file) == file \in ClassifiedFiles

LanguageOfFile == [file \in Files |-> DictGet(CODE_LANGUAGES, Suffix(file.name), "")]

LanguageOf(file) == LanguageOfFile[file]

AllLanguages == {CODE_LANGUAGES[i][2] : i \in 1..Len(CODE_LANGUAGES)}

\* sum over the listed files that satisfy Keep of component k of their stats
SumOver(files, Keep(_), k) ==
    SumSeq([i \in 1..Len(files) |->
               IF Keep(files[i]) THEN file_stats[files[i]][k] ELSE 0])

Values(d) == [i \in 1..Len(d) |-> d[i][2]]

NameOfVisit(i) == RepoName(repos[i])

\* the merges done so far, and for each name the last of them
Visits == 1..Len(scanned)
LastVisits == {i \in Visits : \A j \in Visits : j > i => NameOfVisit(j) # NameOfVisit(i)}

SumVisits(V, f(_)) ==
    SumSeq([i \in 1..Len(scanned) |-> IF i \in V THEN f(i) ELSE 0])

JustMerged == pc = "loop" /\ repo_num >= 1

PermSeqs(s) == {[i \in 1..Len(s) |-> s[f[i]]] : f \in Permutations(1..Len(s))}

Contains(dir, file) == \E i \in 1..Len(dir.files) : dir.files[i] = file

\* ==================================================================== C1
\* C1: after any sequence of merges, also one in which two clone URLs give
\* the same repo_name, total_lines_of_code is the sum of the line totals of
\* the entries of repo_stats.
C1_TotalIsSumOfRepoStats ==
    total_lines_of_code = SumSeq([i \in 1..Len(repo_stats) |-> repo_stats[i][2][1]])

\* ==================================================================== C2
\* C2: the per-language totals of language_stats add up to
\* total_lines_of_code, and the total_lines get_repo_stats returned for a
\* repository is the sum of its per-language line counts.
C2_LanguageSumsAgree ==
    /\ SumSeq(Values(language_stats)) = total_lines_of_code
    /\ SumSeq(Values(repo_res.repo_lines)) = repo_res.total_lines

C2_Witness ==
    /\ pc = "done"
    /\ Len(scanned) = 3
    /\ Len(language_stats) >= 2
    /\ \A i \in 1..Len(language_stats) : language_stats[i][2] > 0
    /\ Len(repo_res.repo_lines) = 2

\* ==================================================================== C3
\* C3: when a result is merged under a name the corpus already holds, the
\* repo_stats entry, the per-language totals and the grand totals (lines
\* and chars) are what they would be had only the later result been merged
\* for that name.
ResultOfVisit(i) == get_repo_stats(scanned[i], {})
VisitLines(i) == ResultOfVisit(i).total_lines
VisitChars(i) == ResultOfVisit(i).total_chars

C3_SecondMergeOverwrites ==
    LastVisits # Visits =>
        /\ total_lines_of_code = SumVisits(LastVisits, VisitLines)
        /\ total_chars_of_code = SumVisits(LastVisits, VisitChars)
        /\ \A i \in LastVisits :
              DictGet(repo_stats, NameOfVisit(i), <<-1, -1>>) = <<VisitLines(i), VisitChars(i)>>
        /\ \A lang \in AllLanguages :
              LET LangLines(i) == DictGet(ResultOfVisit(i).repo_lines, lang, 0)
              IN  DictGet(language_stats, lang, 0) = SumVisits(LastVisits, LangLines)

\* ==================================================================== C4
\* C4: each of line_sorted_repos, char_sorted_repos and sorted_languages is
\* a permutation of the items of the mapping it was built from, descending
\* by its key, with equal keys in insertion order.
IsRanking(ranking, mapping, key(_)) ==
    /\ Len(ranking) = Len(mapping)
    /\ Range(ranking) = Range(mapping)
    /\ \A i, j \in 1..Len(ranking) :
          i < j =>
             /\ key(ranking[i]) >= key(ranking[j])
             /\ key(ranking[i]) = key(ranking[j]) =>
                   DictIndex(mapping, ranking[i][1]) < DictIndex(mapping, ranking[j][1])

C4_RankingsSortedStable ==
    pc \in {"emit", "done"} =>
        /\ IsRanking(line_sorted_repos, repo_stats, RepoLinesKey)
        /\ IsRanking(char_sorted_repos, repo_stats, RepoCharsKey)
        /\ IsRanking(sorted_languages, language_stats, LangLinesKey)

C4_Witness ==
    /\ pc = "emit"
    /\ Len(repo_stats) = 2
    /\ repo_stats[1][2][1] = repo_stats[2][2][1]
    /\ repo_stats[1][2][1] > 0
    /\ Len(language_stats) = 2
    /\ language_stats[1][2] < language_stats[2][2]

\* ==================================================================== C5
\* C5: the (repository, chars) pairs written as repos-chars.txt list every
\* repository in descending order of chars, the order of char_sorted_repos.
C5_CharsFileInCharOrder ==
    pc = "done" =>
        repos_chars_txt = [i \in 1..Len(char_sorted_repos) |->
                              <<char_sorted_repos[i][1], char_sorted_repos[i][2][2]>>]

\* ==================================================================== C6
\* C6: a file whose suffix is no key of CODE_LANGUAGES adds nothing to any
\* language bucket, repository total or grand total; its suffix is in the
\* ignored set once however many such files there are, and the empty suffix
\* is not in the reported set.
FilesOfVisits(V) == UNION {Range(os_walk(scanned[i])) : i \in V}

UnclassifiedSuffixes(V) == {Suffix(f.name) : f \in {g \in FilesOfVisits(V) : ~Classified(g)}}

ClassifiedLines(i) == SumOver(os_walk(scanned[i]), Classified, 1)
ClassifiedChars(i) == SumOver(os_walk(scanned[i]), Classified, 2)

C6_UnclassifiedIgnored ==
    /\ total_lines_of_code = SumVisits(Visits, ClassifiedLines)
    /\ total_chars_of_code = SumVisits(Visits, ClassifiedChars)
    /\ DictKeys(language_stats) =
          {LanguageOf(f) : f \in {g \in FilesOfVisits(Visits) : Classified(g)}}
    /\ JustMerged =>
          /\ repo_res.total_lines = ClassifiedLines(repo_num)
          /\ repo_res.total_chars = ClassifiedChars(repo_num)
    /\ pc \in {"loop", "emit"} => ignored_extensions = UnclassifiedSuffixes(Visits)
    /\ pc = "done" =>
          /\ ignored_reported = UnclassifiedSuffixes(Visits) \ {<<>>}
          /\ <<>> \notin ignored_reported

C6_Witness ==
    /\ pc = "done"
    /\ Len(scanned) = 3
    /\ Contains(scanned[1], FileX) /\ Contains(scanned[1], FileN)
    /\ Contains(scanned[3], FileX) /\ Contains(scanned[3], FileA)
    /\ ignored_reported = {<<".", "x", "y", "z">>}
    /\ total_lines_of_code > 0

\* ==================================================================== C7
\* C7: a classified file that cannot be read counts (0, 0) and stops
\* nothing: every other file of the repository and of the later
\* repositories is counted with its own values, and the run ends with the
\* totals of the same corpus without the unreadable file.
Counted(file) == Classified(file) /\ file.readable

ReadableLines(i) == SumOver(os_walk(scanned[i]), Counted, 1)
ReadableChars(i) == SumOver(os_walk(scanned[i]), Counted, 2)

C7_UnreadableFileCountsZero ==
    /\ JustMerged =>
          /\ repo_res.total_lines = ReadableLines(repo_num)
          /\ repo_res.total_chars = ReadableChars(repo_num)
    /\ pc = "done" =>
          /\ Len(scanned) = Len(repos)
          /\ total_lines_of_code = SumVisits(Visits, ReadableLines)
          /\ total_chars_of_code = SumVisits(Visits, ReadableChars)
          /\ \A lang \in AllLanguages :
                LET OfLang(file) == Counted(file) /\ LanguageOf(file) = lang
                    LangLines(i) == SumOver(os_walk(scanned[i]), OfLang, 1)
                IN  DictGet(language_stats, lang, 0) = SumVisits(Visits, LangLines)

C7_Witness ==
    /\ pc = "done"
    /\ Len(scanned) = 2
    /\ scanned[1].files = <<FileU, FileA>>
    /\ scanned[2].files = <<FileB>>
    /\ total_lines_of_code = 3
    /\ total_chars_of_code = 34

\* ==================================================================== C8
\* C8: when a repository's root cannot be listed, its aggregation fails
\* visibly: the result differs from that of an empty repository that was
\* scanned, and no ordinary (0, 0) entry is recorded for it.
C8_EnumerationFailureSurfaced ==
    (JustMerged /\ ~scanned[repo_num].exists) =>
        /\ repo_res # EmptyRes
        /\ DictGet(repo_stats, NameOfVisit(repo_num), <<-1, -1>>) # <<0, 0>>

\* ==================================================================== C9
\* C9 (as stated): scanning a.py with the content
\* "print(1)\n\n  \nprint(2)\n" gives lineCount 2 and charCount 14.
OnlyFileAScanned == JustMerged /\ scanned[repo_num].exists /\ scanned[repo_num].files = <<FileA>>

C9_Original ==
    OnlyFileAScanned => (repo_res.total_lines = 2 /\ repo_res.total_chars = 14)

\* C9 (amended): the same scan gives lineCount 2 and charCount 16.
C9_Amended ==
    OnlyFileAScanned =>
        /\ repo_res.total_lines = 2
        /\ repo_res.total_chars = 16
        /\ repo_res.repo_lines = << <<"Python", 2>> >>

C9_Witness == OnlyFileAScanned /\ Len(FileA.content) = 22

\* =================================================================== C10
\* C10: the per-language line counts, total lines, total chars and ignored
\* suffixes of get_repo_stats are the same for every order in which the
\* files of the tree are visited once each.
C10_OrderIndependent ==
    JustMerged =>
        \A p \in PermSeqs(os_walk(scanned[repo_num])) :
            LET r == get_repo_stats([exists |-> TRUE, files |-> p], {})
            IN  /\ DictAsMap(r.repo_lines) = DictAsMap(repo_res.repo_lines)
                /\ r.total_lines = repo_res.total_lines
                /\ r.total_chars = repo_res.total_chars
                /\ r.ignored = UnclassifiedSuffixes({repo_num})
                /\ r.ignored \subseteq ignored_extensions

C10_Witness ==
    /\ JustMerged
    /\ scanned[repo_num].files = <<FileB, FileA>>
    /\ repo_res.repo_lines = << <<"C", 1>>, <<"Python", 2>> >>
====
